---- MODULE Spec2Model ----
(***************************************************************************)
(* State-machine model of the orcaq durable work queue (src/queue.go):     *)
(* the store, the notification channel, the dispatch loop of every         *)
(* registered worker, the callers of PushJob/PushBytes and Close, and a    *)
(* second Init on the same store location.                                 *)
(***************************************************************************)
EXTENDS Integers, Sequences, FiniteSets, TLC

\* ------------------------------------------------------------------ bounds
\* number of IDs the uuid generator hands out in one behaviour
MaxJobs == 2
\* capacity of the notification channel (make(chan []byte, 1000)), scaled down
NotifierCap == 1
\* a handler stops answering "recoverable" once RetryCount reaches this
MaxRetry == 1

Workers == {"w1", "w2"}
Pushers == {"p1"}
IDs == 1 .. MaxJobs
\* the nil []byte
NoID == 0
Payloads == {"a"}

\* ------------------------------------------------- job record (job.go)
Uack == "Unacknowledged"
Nack == "NegativeAcknowledged"
Ack == "Acknowledged"
Failed == "Failed"
JobStatus == {Uack, Nack, Ack, Failed}

\* an absent key of the Jobs bucket
NoJob == <<>>

\* Job.Bytes: the self-describing encoding of a record
Bytes(j) == <<j.ID, j.Data, j.Status, j.Message, j.RetryCount>>

\* DecodeJob: the inverse of Bytes
DecodeJob(b) ==
    [ID |-> b[1], Data |-> b[2], Status |-> b[3], Message |-> b[4],
     RetryCount |-> b[5]]

\* status messages are texts; the empty text, and the text "Complete"
NoMessage == <<>>
Complete == <<"Complete">>

\* the Job literal of PushBytes
NewJob(d) ==
    [ID |-> NoID, Data |-> d, Status |-> Uack, Message |-> NoMessage, RetryCount |-> 0]

\* jobs a caller hands to PushJob: any ID, Status and RetryCount
CallerJobs ==
    { [ID |-> NoID, Data |-> "a", Status |-> Uack, Message |-> NoMessage, RetryCount |-> 0],
      [ID |-> 1, Data |-> "b", Status |-> Ack, Message |-> NoMessage, RetryCount |-> 1] }

\* ------------------------------------------------- worker (worker.go)
\* what DoWork returns: nil, a RecoverableWorkerError, any other error
Results == {"nil", "recoverable", "permanent"}
NoResult == "none"

\* err.Error() of a returned error
ErrorText(r) == <<"error", r>>

\* fmt.Sprintf("Picked up by %s", w.ID())
PickedUpBy(w) == <<"Picked up by", w>>

\* err.Error() of a failed GetJobByID
FetchErrorText == <<"error", "fetch">>

VARIABLES
    store,      \* the Jobs bucket: ID -> encoded record, or NoJob
    dbOpen,     \* the store handle is open
    notifier,   \* q.notifier: the buffered IDs, oldest first
    nextID,     \* number of IDs generated so far
    wg,         \* q.wg counter
    ctxDone,    \* per worker: its cancel function has been called
    wpc,        \* per worker: position of its dispatch loop
    jobID,      \* per worker: the jobID variable of the loop
    job,        \* per worker: the record fetched for DoWork
    result,     \* per worker: what DoWork returned
    ppc,        \* per pusher: position inside PushJob
    pjob,       \* per pusher: the *Job argument
    pret,       \* per pusher: what the last PushJob returned
    closePc,    \* position of the caller of Close
    storeErr,   \* a store operation has failed in this run
    cap,        \* capacity of q.notifier, fixed when the channel is made
    swept       \* the IDs the sweep of this run's Init deleted

vars == <<store, dbOpen, notifier, nextID, wg, ctxDone, wpc, jobID, job,
          result, ppc, pjob, pret, closePc, storeErr, cap, swept>>

workerVars == <<ctxDone, wpc, jobID, job, result>>
pusherVars == <<ppc, pjob, pret>>

NoReturn == [id |-> NoID, err |-> FALSE]

\* ------------------------------------------------- channel operations
\* a channel whose sends never block
CanSendAlways(ch) == TRUE

\* a send completes only while the buffer has room
CanSend(ch) == Len(ch) < cap

\* a send that puts the ID in front of the buffered ones
SendToFront(ch, id) == <<id>> \o ch

\* a completed send puts the ID behind the buffered ones
Send(ch, id) == Append(ch, id)

\* a receive that leaves the ID in the buffer
RecvKeepsHead(ch) == ch

\* a receive takes the oldest buffered ID
Recv(ch) == Tail(ch)

InChan(id) == \E i \in 1 .. Len(notifier) : notifier[i] = id

\* ------------------------------------------------- store operations
\* the transaction of updateJobStatus succeeds
UpdateOK(st, id, ok) == ok /\ dbOpen /\ id \in IDs /\ st[id] # NoJob

\* an update that writes the record back without its payload
updateJobStatusLosesData(st, id, status, message, ok) ==
    IF UpdateOK(st, id, ok)
    THEN LET j == DecodeJob(st[id])
             j2 == [j EXCEPT !.Status = status, !.Message = message, !.Data = "",
                             !.RetryCount = IF status = Nack THEN @ + 1 ELSE @]
         IN [st EXCEPT ![j2.ID] = Bytes(j2)]
    ELSE st

\* updateJobStatus: read-modify-write of one record
updateJobStatus(st, id, status, message, ok) ==
    IF UpdateOK(st, id, ok)
    THEN LET j == DecodeJob(st[id])
             j2 == [j EXCEPT !.Status = status, !.Message = message,
                             !.RetryCount = IF status = Nack THEN @ + 1 ELSE @]
         IN [st EXCEPT ![j2.ID] = Bytes(j2)]
    ELSE st

\* GetJobByID succeeds
GetOK(st, id, ok) == ok /\ dbOpen /\ id \in IDs /\ st[id] # NoJob

GetJobByID(st, id) == DecodeJob(st[id])

\* a sweep that also deletes the records waiting for a retry
processJobsDropsNack(st, ok) ==
    IF ok
    THEN [id \in IDs |->
            IF st[id] # NoJob /\ DecodeJob(st[id]).Status \in {Failed, Ack, Nack}
            THEN NoJob ELSE st[id]]
    ELSE st

\* processJobs: delete every Failed or Acknowledged record
processJobs(st, ok) ==
    IF ok
    THEN [id \in IDs |->
            IF st[id] # NoJob /\ DecodeJob(st[id]).Status \in {Failed, Ack}
            THEN NoJob ELSE st[id]]
    ELSE st

\* ------------------------------------------------- initial state
InitCap(c) ==
    /\ cap = c
    /\ swept = {}
    /\ store = [id \in IDs |-> NoJob]
    /\ dbOpen = TRUE
    /\ notifier = <<>>
    /\ nextID = 0
    /\ wg = 0
    /\ ctxDone = [w \in Workers |-> FALSE]
    /\ wpc = [w \in Workers |-> "unregistered"]
    /\ jobID = [w \in Workers |-> NoID]
    /\ job = [w \in Workers |-> NoJob]
    /\ result = [w \in Workers |-> NoResult]
    /\ ppc = [p \in Pushers |-> "idle"]
    /\ pjob = [p \in Pushers |-> NoJob]
    /\ pret = [p \in Pushers |-> NoReturn]
    /\ closePc = "idle"
    /\ storeErr = FALSE

\* the queue as the code makes it, with the (scaled) capacity
Init == InitCap(NotifierCap)

\* the same queue with room for one more ID in the channel
InitWide == InitCap(NotifierCap + 1)

\* ------------------------------------------------- PushJob / PushBytes
\* a PushJob that signals the new ID whether or not its transaction committed
PushJobSignalsAnyway(p, j, ok) ==
    /\ ppc[p] = "idle"
    /\ nextID < MaxJobs
    /\ ok => dbOpen
    /\ nextID' = nextID + 1
    /\ LET j2 == [j EXCEPT !.ID = nextID + 1]
       IN /\ store' = IF ok THEN [store EXCEPT ![j2.ID] = Bytes(j2)] ELSE store
          /\ pjob' = [pjob EXCEPT ![p] = j2]
          /\ ppc' = [ppc EXCEPT ![p] = "send"]
          /\ pret' = [pret EXCEPT ![p] = NoReturn]
          /\ storeErr' = (storeErr \/ ~ok)
    /\ UNCHANGED <<dbOpen, notifier, wg, workerVars, closePc>>
    /\ UNCHANGED <<cap, swept>>

\* the db.Update transaction of PushJob, and the error return
PushJob(p, j, ok) ==
    /\ ppc[p] = "idle"
    /\ nextID < MaxJobs
    /\ ok => dbOpen
    /\ nextID' = nextID + 1
    /\ LET j2 == [j EXCEPT !.ID = nextID + 1]
       IN IF ok
          THEN /\ store' = [store EXCEPT ![j2.ID] = Bytes(j2)]
               /\ pjob' = [pjob EXCEPT ![p] = j2]
               /\ ppc' = [ppc EXCEPT ![p] = "send"]
               /\ pret' = [pret EXCEPT ![p] = NoReturn]
               /\ UNCHANGED storeErr
          ELSE /\ pret' = [pret EXCEPT ![p] = [id |-> NoID, err |-> TRUE]]
               /\ storeErr' = TRUE
               /\ UNCHANGED <<store, pjob, ppc>>
    /\ UNCHANGED <<dbOpen, notifier, wg, workerVars, closePc>>
    /\ UNCHANGED <<cap, swept>>

PushBytes(p, d, ok) == PushJob(p, NewJob(d), ok)

\* q.notifier <- j.ID; return j.ID, nil
PushJobSend(p) ==
    /\ ppc[p] = "send"
    /\ closePc # "returned"
    /\ CanSend(notifier)
    /\ notifier' = Send(notifier, pjob[p].ID)
    /\ pret' = [pret EXCEPT ![p] = [id |-> pjob[p].ID, err |-> FALSE]]
    /\ ppc' = [ppc EXCEPT ![p] = "idle"]
    /\ pjob' = [pjob EXCEPT ![p] = NoJob]
    /\ UNCHANGED <<store, dbOpen, nextID, wg, workerVars, closePc, storeErr>>
    /\ UNCHANGED <<cap, swept>>

\* ------------------------------------------------- RegisterWorker
\* appends the cancel function, q.wg.Add(1) and starts the loop; the registries
\* are not synchronised, so callers register before they invoke Close
RegisterWorker(w) ==
    /\ wpc[w] = "unregistered"
    /\ closePc = "idle"
    /\ wg' = wg + 1
    /\ wpc' = [wpc EXCEPT ![w] = "select"]
    /\ UNCHANGED <<store, dbOpen, notifier, nextID, ctxDone, jobID, job,
                   result, pusherVars, closePc, storeErr>>
    /\ UNCHANGED <<cap, swept>>

\* ------------------------------------------------- dispatch loop
\* a loop that is cancelled in the middle of a DoWork call
LoopExitPreempts(w) ==
    /\ wpc[w] \in {"select", "work"}
    /\ ctxDone[w]
    /\ wg' = wg - 1
    /\ wpc' = [wpc EXCEPT ![w] = "exited"]
    /\ UNCHANGED <<store, dbOpen, notifier, nextID, ctxDone, jobID, job,
                   result, pusherVars, closePc, storeErr>>
    /\ UNCHANGED <<cap, swept>>

\* case <-ctx.Done(): q.wg.Done(); return
LoopExit(w) ==
    /\ wpc[w] = "select"
    /\ ctxDone[w]
    /\ wg' = wg - 1
    /\ wpc' = [wpc EXCEPT ![w] = "exited"]
    /\ UNCHANGED <<store, dbOpen, notifier, nextID, ctxDone, jobID, job,
                   result, pusherVars, closePc, storeErr>>
    /\ UNCHANGED <<cap, swept>>

\* case jobID = <-q.notifier
LoopReceive(w) ==
    /\ wpc[w] = "select"
    /\ notifier # <<>>
    /\ jobID' = [jobID EXCEPT ![w] = Head(notifier)]
    /\ notifier' = Recv(notifier)
    /\ wpc' = [wpc EXCEPT ![w] = "mark"]
    /\ UNCHANGED <<store, dbOpen, nextID, wg, ctxDone, job, result,
                   pusherVars, closePc, storeErr>>
    /\ UNCHANGED <<cap, swept>>

\* default: time.Sleep(q.PollRate), then the next iteration: the loop is back
\* at the select with nothing changed
LoopSleep(w) ==
    /\ wpc[w] = "select"
    /\ ~ctxDone[w]
    /\ notifier = <<>>
    /\ UNCHANGED vars

\* a loop that goes on to the fetch although the pick-up mark failed
LoopMarkNoContinue(w, ok) ==
    /\ wpc[w] = "mark"
    /\ store' = updateJobStatus(store, jobID[w], Uack, PickedUpBy(w), ok)
    /\ wpc' = [wpc EXCEPT ![w] = "fetch"]
    /\ storeErr' = (storeErr \/ ~UpdateOK(store, jobID[w], ok))
    /\ UNCHANGED <<dbOpen, notifier, nextID, wg, ctxDone, jobID, job, result,
                   pusherVars, closePc>>
    /\ UNCHANGED <<cap, swept>>

\* updateJobStatus(jobID, Uack, "Picked up by ..."); continue on error
LoopMark(w, ok) ==
    /\ wpc[w] = "mark"
    /\ store' = updateJobStatus(store, jobID[w], Uack, PickedUpBy(w), ok)
    /\ IF UpdateOK(store, jobID[w], ok)
       THEN /\ wpc' = [wpc EXCEPT ![w] = "fetch"]
            /\ UNCHANGED <<jobID, storeErr>>
       ELSE /\ wpc' = [wpc EXCEPT ![w] = "select"]
            /\ jobID' = [jobID EXCEPT ![w] = NoID]
            /\ storeErr' = TRUE
    /\ UNCHANGED <<dbOpen, notifier, nextID, wg, ctxDone, job, result,
                   pusherVars, closePc>>
    /\ UNCHANGED <<cap, swept>>

\* job, err := q.GetJobByID(jobID)
LoopFetch(w, ok) ==
    /\ wpc[w] = "fetch"
    /\ IF GetOK(store, jobID[w], ok)
       THEN /\ job' = [job EXCEPT ![w] = GetJobByID(store, jobID[w])]
            /\ wpc' = [wpc EXCEPT ![w] = "work"]
            /\ UNCHANGED storeErr
       ELSE /\ wpc' = [wpc EXCEPT ![w] = "fetchFailed"]
            /\ storeErr' = TRUE
            /\ UNCHANGED job
    /\ UNCHANGED <<store, dbOpen, notifier, nextID, wg, ctxDone, jobID,
                   result, pusherVars, closePc>>
    /\ UNCHANGED <<cap, swept>>

\* q.updateJobStatus(jobID, Failed, err.Error()); continue
LoopFetchFailed(w, ok) ==
    /\ wpc[w] = "fetchFailed"
    /\ store' = updateJobStatus(store, jobID[w], Failed, FetchErrorText, ok)
    /\ storeErr' = (storeErr \/ ~UpdateOK(store, jobID[w], ok))
    /\ wpc' = [wpc EXCEPT ![w] = "select"]
    /\ jobID' = [jobID EXCEPT ![w] = NoID]
    /\ UNCHANGED <<dbOpen, notifier, nextID, wg, ctxDone, job, result,
                   pusherVars, closePc>>
    /\ UNCHANGED <<cap, swept>>

\* err = w.DoWork(ctx, job) returns
LoopDoWork(w, r) ==
    /\ wpc[w] = "work"
    /\ r = "recoverable" => job[w].RetryCount < MaxRetry
    /\ result' = [result EXCEPT ![w] = r]
    /\ wpc' = [wpc EXCEPT ![w] = "report"]
    /\ UNCHANGED <<store, dbOpen, notifier, nextID, wg, ctxDone, jobID, job,
                   pusherVars, closePc, storeErr>>
    /\ UNCHANGED <<cap, swept>>

\* a loop that does not tell a recoverable error from any other
OutcomeStatusNoRetry(r) == IF r = "nil" THEN Ack ELSE Failed

\* the status the loop writes for a DoWork result
OutcomeStatus(r) ==
    IF r = "nil" THEN Ack ELSE IF r = "recoverable" THEN Nack ELSE Failed

OutcomeMessage(r) == IF r = "nil" THEN Complete ELSE ErrorText(r)

\* the updateJobStatus call after DoWork, up to its db.Update
LoopReport(w, ok) ==
    /\ wpc[w] = "report"
    /\ store' = updateJobStatus(store, jobID[w], OutcomeStatus(result[w]),
                                OutcomeMessage(result[w]), ok)
    /\ storeErr' = (storeErr \/ ~UpdateOK(store, jobID[w], ok))
    /\ IF OutcomeStatus(result[w]) = Nack /\ UpdateOK(store, jobID[w], ok)
       THEN /\ wpc' = [wpc EXCEPT ![w] = "resignal"]
            /\ UNCHANGED jobID
       ELSE /\ wpc' = [wpc EXCEPT ![w] = "select"]
            /\ jobID' = [jobID EXCEPT ![w] = NoID]
    /\ job' = [job EXCEPT ![w] = NoJob]
    /\ result' = [result EXCEPT ![w] = NoResult]
    /\ UNCHANGED <<dbOpen, notifier, nextID, wg, ctxDone, pusherVars, closePc>>
    /\ UNCHANGED <<cap, swept>>

\* if status == Nack && err == nil { q.notifier <- id }
LoopResignal(w) ==
    /\ wpc[w] = "resignal"
    /\ CanSend(notifier)
    /\ notifier' = Send(notifier, jobID[w])
    /\ wpc' = [wpc EXCEPT ![w] = "select"]
    /\ jobID' = [jobID EXCEPT ![w] = NoID]
    /\ UNCHANGED <<store, dbOpen, nextID, wg, ctxDone, job, result,
                   pusherVars, closePc, storeErr>>
    /\ UNCHANGED <<cap, swept>>

\* ------------------------------------------------- Close
\* for _, f := range q.shutdownFuncs { f() }: cancelling never blocks and
\* only enables loop exits, so the range is one step
CloseCancel ==
    /\ closePc = "idle"
    /\ ctxDone' = [w \in Workers |-> ctxDone[w] \/ wpc[w] # "unregistered"]
    /\ closePc' = "wait"
    /\ UNCHANGED <<store, dbOpen, notifier, nextID, wg, wpc, jobID, job,
                   result, pusherVars, storeErr>>
    /\ UNCHANGED <<cap, swept>>

\* a Close that does not wait for the loops
WaitDoneNoJoin(n) == TRUE

\* the join: q.wg.Wait() returns once the counter is zero
WaitDone(n) == n = 0

CloseWait ==
    /\ closePc = "wait"
    /\ WaitDone(wg)
    /\ closePc' = "joined"
    /\ UNCHANGED <<store, dbOpen, notifier, nextID, wg, workerVars,
                   pusherVars, storeErr>>
    /\ UNCHANGED <<cap, swept>>

\* q.notifier = nil; ...; return q.db.Close()
CloseFinish ==
    /\ closePc = "joined"
    /\ notifier' = <<>>
    /\ dbOpen' = FALSE
    /\ closePc' = "returned"
    /\ UNCHANGED <<store, nextID, wg, workerVars, pusherVars, storeErr>>
    /\ UNCHANGED <<cap, swept>>

\* ------------------------------------------------- Init on the same location
\* a new run opens the store the closed queue left behind: a fresh channel,
\* empty registries, no goroutine of the old queue; uuids never repeat
InitQueue(ok) ==
    /\ closePc = "returned"
    /\ store' = processJobs(store, ok)
    /\ dbOpen' = TRUE
    /\ notifier' = <<>>
    /\ wg' = 0
    /\ ctxDone' = [w \in Workers |-> FALSE]
    /\ wpc' = [w \in Workers |-> "unregistered"]
    /\ jobID' = [w \in Workers |-> NoID]
    /\ job' = [w \in Workers |-> NoJob]
    /\ result' = [w \in Workers |-> NoResult]
    /\ ppc' = [p \in Pushers |-> "idle"]
    /\ pjob' = [p \in Pushers |-> NoJob]
    /\ pret' = [p \in Pushers |-> NoReturn]
    /\ closePc' = "idle"
    /\ storeErr' = ~ok
    /\ swept' = {id \in IDs : store[id] # NoJob /\ processJobs(store, ok)[id] = NoJob}
    /\ UNCHANGED nextID
    /\ UNCHANGED cap

\* ------------------------------------------------- specification
Next ==
    \/ \E p \in Pushers, j \in CallerJobs, ok \in BOOLEAN : PushJob(p, j, ok)
    \/ \E p \in Pushers, d \in Payloads, ok \in BOOLEAN : PushBytes(p, d, ok)
    \/ \E p \in Pushers : PushJobSend(p)
    \/ \E w \in Workers : RegisterWorker(w)
    \/ \E w \in Workers : LoopExit(w)
    \/ \E w \in Workers : LoopReceive(w)
    \/ \E w \in Workers : LoopSleep(w)
    \/ \E w \in Workers, ok \in BOOLEAN : LoopMark(w, ok)
    \/ \E w \in Workers, ok \in BOOLEAN : LoopFetch(w, ok)
    \/ \E w \in Workers, ok \in BOOLEAN : LoopFetchFailed(w, ok)
    \/ \E w \in Workers, r \in Results : LoopDoWork(w, r)
    \/ \E w \in Workers, ok \in BOOLEAN : LoopReport(w, ok)
    \/ \E w \in Workers : LoopResignal(w)
    \/ CloseCancel
    \/ CloseWait
    \/ CloseFinish
    \/ \E ok \in BOOLEAN : InitQueue(ok)

Spec == Init /\ [][Next]_vars

SpecWide == InitWide /\ [][Next]_vars

TypeOK ==
    /\ dbOpen \in BOOLEAN
    /\ Len(notifier) <= cap
    /\ nextID \in 0 .. MaxJobs
    /\ wg \in 0 .. Cardinality(Workers)

\* the loop of a registered worker and the pending send of a pusher are
\* scheduled fairly; the callers of PushJob, RegisterWorker, Close and Init
\* are free to do nothing
LoopStep(w) ==
    \/ LoopExit(w)
    \/ LoopReceive(w)
    \/ \E ok \in BOOLEAN : LoopMark(w, ok)
    \/ \E ok \in BOOLEAN : LoopFetch(w, ok)
    \/ \E ok \in BOOLEAN : LoopFetchFailed(w, ok)
    \/ \E r \in Results : LoopDoWork(w, r)
    \/ \E ok \in BOOLEAN : LoopReport(w, ok)
    \/ LoopResignal(w)

FairSpec ==
    /\ Init
    /\ [][Next]_vars
    /\ \A w \in Workers : WF_vars(LoopStep(w))
    /\ \A p \in Pushers : WF_vars(PushJobSend(p))

\* ------------------------------------------------- helpers of the properties
Stored(st, id) == st[id] # NoJob

StatusOf(st, id) == DecodeJob(st[id]).Status

RetryCountOf(st, id) == DecodeJob(st[id]).RetryCount

Occurrences(ch, id) == Cardinality({i \in 1 .. Len(ch) : ch[i] = id})

\* the loop of w is between dequeuing an ID and writing its outcome
Processing(w) == wpc[w] \in {"mark", "fetch", "fetchFailed", "work", "report"}

Registered(w) == wpc[w] \notin {"unregistered", "exited"}

\* ------------------------------------------------- C1
RunnableRecorded ==
    /\ \A id \in IDs : InChan(id) => Stored(store, id)
    /\ \A w \in Workers : jobID[w] # NoID => Stored(store, jobID[w])
    /\ \A p \in Pushers : ppc[p] = "send" => Stored(store, pjob[p].ID)

PushFailureHasNoEffect ==
    \A p \in Pushers :
        (nextID' # nextID /\ pret'[p].err) =>
            /\ store' = store
            /\ notifier' = notifier
            /\ ppc'[p] = "idle"
            /\ pret'[p].id = NoID

\* C1: every ID that is in the notification channel, held by a dispatch loop
\* or about to be signalled by PushJob has a record in the store, and a
\* PushJob whose transaction fails returns the error with a nil ID, sends
\* nothing and leaves the store as it was.
C1_DurableBeforeRunnable ==
    /\ []RunnableRecorded
    /\ [][PushFailureHasNoEffect]_vars

\* a push has failed while the ID of a committed job sits in the channel
C1_Witness ==
    /\ \E p \in Pushers : pret[p].err
    /\ notifier # <<>>

\* ------------------------------------------------- C2
\* C2: between the commit of a push and its signal (no loop can have touched
\* the job yet) GetJobByID on the new ID returns Status=Unacknowledged,
\* RetryCount=0, the caller's payload and the fresh ID.
C2_PushedRecordIsFresh ==
    \A p \in Pushers :
        ppc[p] = "send" =>
            LET r == GetJobByID(store, pjob[p].ID)
            IN /\ r.ID = pjob[p].ID
               /\ r.ID = nextID
               /\ r.Data = pjob[p].Data
               /\ r.Status = Uack
               /\ r.RetryCount = 0

\* ------------------------------------------------- C3
\* C3: the step that opens the store again puts the ID of every record it
\* leaves Unacknowledged or NegativeAcknowledged on the notification channel.
C3_StartupRequeues ==
    [][(closePc = "returned" /\ closePc' = "idle") =>
          \A id \in IDs :
              (Stored(store', id) /\ StatusOf(store', id) \in {Uack, Nack}) =>
                  Occurrences(notifier', id) = 1]_vars

\* ------------------------------------------------- C4
\* C4: with at least one registered worker and no store error, no state has
\* every registered dispatch loop blocked on its send to the full
\* notification channel (from which no job could reach a terminal status).
C4_NoBlockedChannelDeadlock ==
    ~ /\ ~storeErr
      /\ closePc = "idle"
      /\ \E w \in Workers : Registered(w)
      /\ \A w \in Workers : Registered(w) => wpc[w] = "resignal"
      /\ ~CanSend(notifier)

\* ------------------------------------------------- C5
\* C5: with no store error, no two dispatch loops are at the same time
\* between dequeuing the same job ID and writing its outcome.
C5_SingleDelivery ==
    ~storeErr =>
        \A w1, w2 \in Workers :
            (w1 # w2 /\ Processing(w1) /\ Processing(w2)) => jobID[w1] # jobID[w2]

\* two loops are processing (different) jobs at the same time
C5_Witness ==
    /\ ~storeErr
    /\ \A w \in Workers : wpc[w] \in {"work", "report"}

\* ------------------------------------------------- C6
\* C6: a record that is Acknowledged or Failed is left as it is by every step
\* (or purged), its ID is not added to the notification channel and no
\* DoWork call is started for it.
C6_TerminalIsFinal ==
    [][\A id \in IDs :
          (Stored(store, id) /\ StatusOf(store, id) \in {Ack, Failed}) =>
              /\ store'[id] = store[id] \/ ~Stored(store', id)
              /\ Occurrences(notifier', id) <= Occurrences(notifier, id)
              /\ \A w \in Workers :
                    ~(wpc[w] # "work" /\ wpc'[w] = "work" /\ jobID'[w] = id)]_vars

\* ------------------------------------------------- C7
CloseJoined ==
    /\ closePc \in {"joined", "returned"} =>
          \A w \in Workers : wpc[w] \in {"unregistered", "exited"}
    /\ ~dbOpen => closePc = "returned"
    /\ closePc = "returned" => ~dbOpen

\* C7: Close passes its join, closes the store and returns only when every
\* dispatch loop has exited, and from the return of Close on no step changes
\* the store or takes an ID from the channel.
C7_CloseAfterLoopsExit ==
    /\ []CloseJoined
    /\ [][(closePc = "returned" /\ closePc' = "returned") =>
             (store' = store /\ jobID' = jobID /\ wpc' = wpc)]_vars

\* Close has returned after a loop that had taken a job exited
C7_Witness ==
    /\ closePc = "returned"
    /\ \E w \in Workers : wpc[w] = "exited"
    /\ \E id \in IDs : Stored(store, id) /\ StatusOf(store, id) \in {Ack, Nack, Failed}

\* ------------------------------------------------- C8
\* C8: while the queue is not being closed, the re-signal that follows a
\* successful NegativeAcknowledged update completes: the ID gets onto the
\* notification channel.
C8_NackIsResignalled ==
    \A w \in Workers :
        (wpc[w] = "resignal" /\ closePc = "idle") ~>
            (wpc[w] # "resignal" \/ closePc # "idle")

\* ------------------------------------------------- C9
\* C9: a record is created with RetryCount 0, and every step changes the
\* RetryCount of a stored record by exactly the number of transitions into
\* NegativeAcknowledged it makes in that step (one or none).
C9_RetryCountCountsNacks ==
    [][\A id \in IDs :
          /\ (~Stored(store, id) /\ Stored(store', id)) => RetryCountOf(store', id) = 0
          /\ (Stored(store, id) /\ Stored(store', id)) =>
                RetryCountOf(store', id) = RetryCountOf(store, id) +
                    (IF store'[id] # store[id] /\ StatusOf(store', id) = Nack
                     THEN 1 ELSE 0)]_vars

\* ------------------------------------------------- C10
\* the update the loop of w attempts for the result of DoWork: it either fails
\* and changes nothing, or writes exactly the status and message of the result
ReportsOutcome(w) ==
    LET id == jobID[w]
        r == result[w]
    IN \/ store' = store /\ storeErr'
       \/ /\ \A other \in IDs \ {id} : store'[other] = store[other]
          /\ r = "nil" =>
                /\ StatusOf(store', id) = Ack
                /\ DecodeJob(store'[id]).Message = <<"Complete">>
          /\ r = "recoverable" =>
                /\ StatusOf(store', id) = Nack
                /\ DecodeJob(store'[id]).Message = ErrorText("recoverable")
          /\ r = "permanent" =>
                /\ StatusOf(store', id) = Failed
                /\ DecodeJob(store'[id]).Message = ErrorText("permanent")

\* C10: every return of DoWork is followed by exactly one status update of the
\* loop, and that update writes Acknowledged/"Complete" for no error,
\* NegativeAcknowledged with the error text for a recoverable error and Failed
\* with the error text for any other error.
C10_OutcomeDeterminesStatus ==
    [][\A w \in Workers :
          /\ (wpc[w] = "work" /\ wpc'[w] # "work") =>
                (wpc'[w] = "report" /\ result'[w] \in Results /\ store' = store)
          /\ (wpc[w] # "report" /\ wpc'[w] = "report") => wpc[w] = "work"
          /\ (wpc[w] = "report" /\ wpc'[w] # "report") =>
                (ReportsOutcome(w) /\ wpc'[w] \in {"select", "resignal"})
          /\ (wpc[w] = "report" /\ wpc'[w] = "report") => store'[jobID[w]] = store[jobID[w]]]_vars

\* one job has been acknowledged and another failed with the handler's error
C10_Witness ==
    /\ \E id \in IDs :
          /\ Stored(store, id)
          /\ StatusOf(store, id) = Ack
          /\ DecodeJob(store[id]).Message = <<"Complete">>
    /\ \E id \in IDs :
          /\ Stored(store, id)
          /\ StatusOf(store, id) = Failed
          /\ DecodeJob(store[id]).Message = ErrorText("permanent")

\* ------------------------------------------------- C11
\* the step is the sweep of an Init on the stored records
IsInitStep == closePc = "returned" /\ closePc' = "idle"

\* the sweep deletes exactly the terminal records
SweepPurges ==
    \A id \in IDs :
        /\ (Stored(store, id) /\ StatusOf(store, id) \in {Ack, Failed}) =>
              ~Stored(store', id)
        /\ (Stored(store, id) /\ StatusOf(store, id) \in {Uack, Nack}) =>
              store'[id] = store[id]
        /\ ~Stored(store, id) => ~Stored(store', id)

NoRecordDeleted == \A id \in IDs : Stored(store, id) => Stored(store', id)

\* C11 as claimed: every Init deletes every Acknowledged and Failed record and
\* leaves the others unchanged, and no other step deletes a record.
C11_SweepAlwaysPurges ==
    [][IF IsInitStep THEN SweepPurges ELSE NoRecordDeleted]_vars

\* C11 as amended: an Init whose sweep transaction commits deletes every
\* Acknowledged and Failed record and leaves the others unchanged; an Init
\* whose sweep transaction fails leaves the whole store unchanged (and still
\* opens the queue); no other step deletes a record.
C11_SweepPurgesUnlessItFails ==
    [][IF IsInitStep
       THEN /\ ~storeErr' => SweepPurges
            /\ storeErr' => store' = store
            /\ dbOpen'
       ELSE NoRecordDeleted]_vars

\* an Init has deleted a terminal record and kept a record that a loop of
\* the previous run had worked on
C11_Witness ==
    /\ swept # {}
    /\ \A w \in Workers : wpc[w] = "unregistered"
    /\ \E id \in IDs :
          /\ Stored(store, id)
          /\ StatusOf(store, id) \in {Uack, Nack}
          /\ DecodeJob(store[id]).Message # NoMessage

\* ------------------------------------------------- C12
\* C12: a loop that stands at its select with its cancellation signalled
\* takes nothing from the notification channel: its next step is the exit.
C12_CancelledLoopDequeuesNothing ==
    [][\A w \in Workers :
          (ctxDone[w] /\ wpc[w] = "select") =>
              /\ wpc'[w] \in {"select", "exited"}
              /\ jobID'[w] = jobID[w]]_vars

\* ------------------------------------------------- C13
\* the status changes the lifecycle allows
Lifecycle ==
    {<<Uack, Uack>>, <<Uack, Ack>>, <<Uack, Nack>>, <<Uack, Failed>>,
     <<Nack, Uack>>}

\* C13: a record is created Unacknowledged, every later change of a record
\* follows the lifecycle relation, and an outcome status is written only by a
\* loop over the record it has itself marked picked-up.
C13_StatusFollowsLifecycle ==
    [][\A id \in IDs :
          /\ (~Stored(store, id) /\ Stored(store', id)) => StatusOf(store', id) = Uack
          /\ (Stored(store, id) /\ Stored(store', id) /\ store'[id] # store[id]) =>
                /\ <<StatusOf(store, id), StatusOf(store', id)>> \in Lifecycle
                /\ StatusOf(store', id) \in {Ack, Nack, Failed} =>
                      \E w \in Workers :
                          /\ jobID[w] = id
                          /\ wpc[w] \in {"fetchFailed", "report"}
                          /\ wpc'[w] # wpc[w]
                          /\ DecodeJob(store[id]).Message = PickedUpBy(w)]_vars

\* ------------------------------------------------- C14
\* while a loop is in a DoWork call or about to report its result, the store
\* is open and Close has not passed its join
NotAbandoned ==
    \A w \in Workers :
        wpc[w] \in {"work", "report"} => (dbOpen /\ closePc \in {"idle", "wait"})

\* the step of w writes an outcome status over the record of its job
WroteOutcome(w) ==
    /\ Stored(store', jobID[w])
    /\ store'[jobID[w]] # store[jobID[w]]
    /\ StatusOf(store', jobID[w]) \in {Ack, Nack, Failed}

\* a cancelled loop stays in its DoWork call until the call returns and
\* leaves the loop only from the select
NoPreemption(w) ==
    /\ wpc[w] = "work" => wpc'[w] \in {"work", "report"}
    /\ wpc[w] = "report" => wpc'[w] \in {"report", "select", "resignal"}
    /\ wpc'[w] = "exited" => wpc[w] \in {"select", "exited"}

\* C14 as claimed: after Close was invoked a loop that holds a job is never
\* cut short, and when it leaves its report step it has written the outcome
\* status of the job, all before Close passes its join and closes the store.
C14_OutcomeWrittenBeforeExit ==
    /\ []NotAbandoned
    /\ [][\A w \in Workers :
             ctxDone[w] =>
                 /\ NoPreemption(w)
                 /\ (wpc[w] = "report" /\ wpc'[w] # "report") => WroteOutcome(w)]_vars

\* C14 as amended: the same, except that the outcome update may fail with a
\* store error, in which case the loop goes on with the record unchanged.
C14_OutcomeAttemptedBeforeExit ==
    /\ []NotAbandoned
    /\ [][\A w \in Workers :
             ctxDone[w] =>
                 /\ NoPreemption(w)
                 /\ (wpc[w] = "report" /\ wpc'[w] # "report") =>
                       (WroteOutcome(w) \/ (storeErr' /\ store' = store))]_vars

\* Close is waiting for a cancelled loop that has written the
\* NegativeAcknowledged outcome of its job and has not exited
C14_Witness ==
    /\ closePc = "wait"
    /\ dbOpen
    /\ ~storeErr
    /\ \E w \in Workers :
          /\ ctxDone[w]
          /\ wpc[w] = "resignal"
          /\ StatusOf(store, jobID[w]) = Nack

\* ------------------------------------------------- C15
\* the job handed to DoWork is the fetched record, marked picked-up by w
WorksOnMarkedJob ==
    \A w \in Workers :
        wpc[w] = "work" =>
            /\ job[w] # NoJob
            /\ job[w].ID = jobID[w]
            /\ job[w].Status = Uack
            /\ job[w].Message = PickedUpBy(w)

\* the order of mark, fetch and DoWork in one iteration of the loop of w
MarkFetchWork(w) ==
    /\ (wpc[w] # "work" /\ wpc'[w] = "work") =>
          (wpc[w] = "fetch" /\ store' = store /\ job'[w] = GetJobByID(store, jobID[w]))
    /\ (wpc[w] # "fetch" /\ wpc'[w] = "fetch") =>
          /\ wpc[w] = "mark"
          /\ StatusOf(store', jobID[w]) = Uack
          /\ DecodeJob(store'[jobID[w]]).Message = PickedUpBy(w)
    /\ (wpc[w] = "mark" /\ wpc'[w] \notin {"mark", "fetch"}) =>
          /\ wpc'[w] = "select"
          /\ store' = store
          /\ notifier' = notifier
    /\ (wpc[w] = "fetch" /\ wpc'[w] \notin {"fetch", "work"}) =>
          /\ wpc'[w] = "fetchFailed"
          /\ store' = store
    /\ (wpc[w] = "fetchFailed" /\ wpc'[w] # "fetchFailed") =>
          /\ wpc'[w] = "select"
          /\ notifier' = notifier
          /\ \/ store' = store /\ storeErr'
             \/ /\ StatusOf(store', jobID[w]) = Failed
                /\ DecodeJob(store'[jobID[w]]).Message = FetchErrorText

\* C15: DoWork is called only on the record the loop has marked picked-up and
\* then fetched; a failed mark ends the iteration with store and channel
\* untouched; a failed fetch is followed by one attempt to mark the job Failed
\* with the fetch error, and by no DoWork call.
C15_WorkOnlyAfterMarkAndFetch ==
    /\ []WorksOnMarkedJob
    /\ [][\A w \in Workers : MarkFetchWork(w)]_vars

\* a DoWork call is in progress while another job has been marked Failed
\* after its fetch failed
C15_Witness ==
    /\ \E w \in Workers : wpc[w] = "work"
    /\ \E id \in IDs :
          /\ Stored(store, id)
          /\ StatusOf(store, id) = Failed
          /\ DecodeJob(store[id]).Message = FetchErrorText

\* ------------------------------------------------- C16
WithinCapacity == Len(notifier) <= cap

\* a pending send completes only while the buffer has room, and then adds
\* its ID at the back
SendsWait ==
    /\ \A p \in Pushers :
          (ppc[p] = "send" /\ ppc'[p] # "send" /\ ~IsInitStep) =>
              (Len(notifier) < cap /\ notifier' = Append(notifier, pjob[p].ID))
    /\ \A w \in Workers :
          (wpc[w] = "resignal" /\ wpc'[w] # "resignal") =>
              (Len(notifier) < cap /\ notifier' = Append(notifier, jobID[w]))

\* the step adds one ID at the back of the channel
IsSend == \E id \in IDs : notifier' = Append(notifier, id)

\* the step hands the oldest ID of the channel to a loop
IsReceive ==
    /\ notifier # <<>>
    /\ notifier' = Tail(notifier)
    /\ \E w \in Workers :
          wpc[w] = "select" /\ wpc'[w] = "mark" /\ jobID'[w] = Head(notifier)

\* C16 as claimed: the channel never holds more IDs than its capacity, which
\* never changes; a send of PushJob or of the re-signal completes only when
\* there is room; and the buffer changes only by a completed send or by a
\* receive of a dispatch loop, so that no buffered ID is dropped or overwritten.
C16_BoundedAndNothingDropped ==
    /\ []WithinCapacity
    /\ [][/\ cap' = cap
          /\ SendsWait
          /\ notifier' # notifier => (IsSend \/ IsReceive)]_vars

\* C16 as amended: the same, except that the IDs still buffered when Close
\* finishes are discarded together with the channel.
C16_BoundedAndDroppedOnlyByClose ==
    /\ []WithinCapacity
    /\ [][/\ cap' = cap
          /\ SendsWait
          /\ notifier' # notifier =>
                \/ IsSend
                \/ IsReceive
                \/ closePc = "joined" /\ closePc' = "returned" /\ notifier' = <<>>]_vars

\* the channel is full and a committed PushJob waits with its send
C16_Witness ==
    /\ Len(notifier) = cap
    /\ \E p \in Pushers : ppc[p] = "send" /\ Stored(store, pjob[p].ID)
    /\ closePc = "idle"

\* ------------------------------------------------- C17
\* the step keeps the buffered IDs in their order: it adds one ID behind
\* them, or takes the first of them for a loop, or (Close) drops them all
KeepsOrder ==
    \/ notifier' = notifier
    \/ /\ Len(notifier') = Len(notifier) + 1
       /\ \A i \in 1 .. Len(notifier) : notifier'[i] = notifier[i]
    \/ /\ Len(notifier) > 0
       /\ Len(notifier') = Len(notifier) - 1
       /\ \A i \in 1 .. Len(notifier') : notifier'[i] = notifier[i + 1]
       /\ \E w \in Workers : jobID'[w] = notifier[1] /\ jobID[w] = NoID
    \/ closePc' = "returned" /\ notifier' = <<>>

\* the re-signal of w ends with its ID as the last of the channel, behind
\* every ID that was buffered
ResignalGoesLast(w) ==
    (wpc[w] = "resignal" /\ wpc'[w] # "resignal") =>
        /\ Len(notifier') = Len(notifier) + 1
        /\ notifier'[Len(notifier')] = jobID[w]
        /\ \A i \in 1 .. Len(notifier) : notifier'[i] = notifier[i]

\* C17: a re-signalled ID is put behind every ID already in the channel, and
\* loops take IDs from the front only, so IDs are dequeued in the order in
\* which their sends completed.
C17_RedeliveredGoToTheBack ==
    [][KeepsOrder /\ \A w \in Workers : ResignalGoesLast(w)]_vars

\* the channel holds a re-signalled ID behind the ID of a job that has not
\* been delivered yet
C17_Witness ==
    /\ Len(notifier) >= 2
    /\ StatusOf(store, notifier[Len(notifier)]) = Nack
    /\ Stored(store, notifier[1])
    /\ StatusOf(store, notifier[1]) = Uack

\* ------------------------------------------------- C18
\* the step is a call of updateJobStatus by the loop of w (the mark, the
\* write after a failed fetch, or the write of the outcome)
IsUpdate(w) ==
    wpc[w] \in {"mark", "fetchFailed", "report"} /\ wpc'[w] # wpc[w]

\* the call touches one record only, and of it neither the ID nor the payload
UpdateFrame(w) ==
    /\ \A id \in IDs \ {jobID[w]} : store'[id] = store[id]
    /\ \A id \in IDs :
          Stored(store, id) =>
              /\ Stored(store', id)
              /\ DecodeJob(store'[id]).ID = DecodeJob(store[id]).ID
              /\ DecodeJob(store'[id]).Data = DecodeJob(store[id]).Data
    /\ \A id \in IDs : ~Stored(store, id) => ~Stored(store', id)

\* a failed call (the record is absent, or the store reports an error)
\* leaves the store as it was and no send follows it
FailedUpdateDoesNothing(w) ==
    /\ (storeErr' /\ ~storeErr) => store' = store
    /\ (jobID[w] \notin IDs \/ ~Stored(store, jobID[w])) => store' = store
    /\ store' = store => wpc'[w] # "resignal"
    /\ notifier' = notifier

\* C18: updateJobStatus changes only Status, Message and RetryCount of the
\* record with the given ID; that record's ID and payload and every other
\* record are unchanged; a failed call leaves the store unchanged and sends
\* nothing on the notification channel.
C18_UpdateTouchesOneRecord ==
    [][\A w \in Workers :
          IsUpdate(w) => UpdateFrame(w) /\ FailedUpdateDoesNothing(w)]_vars

\* one record carries a written outcome and its payload, next to a record
\* that no update has touched
C18_Witness ==
    \E id, other \in IDs :
        /\ id # other
        /\ Stored(store, id) /\ Stored(store, other)
        /\ StatusOf(store, id) = Ack
        /\ DecodeJob(store[id]).Message = Complete
        /\ DecodeJob(store[id]).Data = "a"
        /\ DecodeJob(store[other]).Message = NoMessage

\* ------------------------------------------------- C19
\* Close is a call in progress once it is invoked: its join and its last
\* statements are scheduled fairly, like the loops
FairCloseSpec ==
    /\ FairSpec
    /\ WF_vars(CloseWait)
    /\ WF_vars(CloseFinish)

\* every dispatch loop of the run has returned
LoopsExited == \A w \in Workers : wpc[w] \in {"unregistered", "exited"}

\* C19: once Close is invoked, under fair scheduling every dispatch loop
\* exits and Close returns, whatever the channel holds and whatever the
\* handlers in progress return.
C19_CloseTerminates ==
    (closePc = "wait") ~> (closePc = "returned" /\ LoopsExited)

\* ------------------------------------------------- C20
\* the record is stored and waits for a delivery
Live(st, id) == Stored(st, id) /\ StatusOf(st, id) \in {Uack, Nack}

\* the loops that hold the ID, from its dequeue to the end of the iteration
\* (the re-signal of a nack included)
HeldBy(id) == {w \in Workers : jobID[w] = id /\ (Processing(w) \/ wpc[w] = "resignal")}

\* the pushers whose send of the ID is pending
PendingPush(id) == {p \in Pushers : ppc[p] = "send" /\ pjob[p].ID = id}

\* the places where the ID is: in the channel, with a loop, with a pusher
Accounted(id) ==
    Occurrences(notifier, id) + Cardinality(HeldBy(id)) + Cardinality(PendingPush(id))

\* every ID in the channel is the ID of a record that waits for a delivery
OnlyLiveIDsInChannel ==
    (~storeErr /\ closePc = "idle") =>
        \A i \in 1 .. Len(notifier) :
            notifier[i] \in IDs /\ Live(store, notifier[i])

\* a record created in this run is in exactly one place from its creation
\* on, for as long as it waits for a delivery
AccountingKept ==
    (~storeErr' /\ closePc = "idle" /\ closePc' = "idle") =>
        \A id \in IDs :
            /\ (~Stored(store, id) /\ Live(store', id)) => Accounted(id)' = 1
            /\ (Live(store, id) /\ Accounted(id) = 1 /\ Live(store', id)) =>
                    Accounted(id)' = 1

\* C20: with no store error and before Close is invoked, each job pushed in
\* the current run whose status is Unacknowledged or NegativeAcknowledged
\* is accounted for exactly once (one occurrence in the channel, or held by
\* one loop, or one pending send), and no ID of a terminal or absent record
\* is in the channel.
C20_NoJobLostWithinARun ==
    [](OnlyLiveIDsInChannel) /\ [][AccountingKept]_vars
====
